---- MODULE Spec2Model ----
(***************************************************************************)
(* A model of the SMS ingestion service of src/main.py: the extractor      *)
(* parse_sms, the rule pass apply_rules, the /ingest handler with its      *)
(* check-then-insert dedup gate over the expenses table, /rules, /delete   *)
(* and /undo_delete.                                                       *)
(*                                                                         *)
(* Text.  A Python str is modelled as a sequence of tokens: a token is a   *)
(* whitespace character (SP), a comma, or a maximal run of other           *)
(* characters (a word, a number, a date).  The regular expressions of the  *)
(* source are translated at this granularity: \s+ is a run of SP tokens,   *)
(* a literal such as "for" is a token, "x in y" is a contiguous            *)
(* sub-sequence test.  The texts and patterns the model draws are built    *)
(* from whole words, so a match never starts or ends inside a token.       *)
(*                                                                         *)
(* Optional values.  None in a text position is the one-token sequence     *)
(* None; an optional integer is a set with at most one element.            *)
(***************************************************************************)
EXTENDS Integers, Sequences, FiniteSets, TLC

\* ------------------------------------------------------------------------
\*  Strings as token sequences
\* ------------------------------------------------------------------------

SP == " "

None == <<"<None>">>

\* Python truthiness of an Optional[str]: None and "" are falsy.
Truthy(s) == s # None /\ s # <<>>

IsSpace(t) == t = SP

RECURSIVE LStrip(_)
LStrip(s) == IF s # <<>> /\ IsSpace(Head(s)) THEN LStrip(Tail(s)) ELSE s

RECURSIVE RStrip(_)
RStrip(s) ==
    IF s # <<>> /\ IsSpace(s[Len(s)]) THEN RStrip(SubSeq(s, 1, Len(s) - 1)) ELSE s

\* str.strip()
Strip(s) == RStrip(LStrip(s))

RECURSIVE LStripComma(_)
LStripComma(s) == IF s # <<>> /\ Head(s) = "," THEN LStripComma(Tail(s)) ELSE s

RECURSIVE RStripComma(_)
RStripComma(s) ==
    IF s # <<>> /\ s[Len(s)] = "," THEN RStripComma(SubSeq(s, 1, Len(s) - 1)) ELSE s

\* str.strip(",")
StripComma(s) == RStripComma(LStripComma(s))

\* str.lower() of one token: the words of the model that carry upper case.
LowerTok(t) ==
    CASE t = "STARBUCKS" -> "starbucks"
      [] t = "Talabat"   -> "talabat"
      [] t = "FOR"       -> "for"
      [] t = "KWD"       -> "kwd"
      [] t = "USD"       -> "usd"
      [] t = "EUR"       -> "eur"
      [] OTHER           -> t

\* str.lower()
Lower(s) == [i \in 1..Len(s) |-> LowerTok(s[i])]

\* "p in s" for two strings
IsInfix(p, s) ==
    \E i \in 0..(Len(s) - Len(p)) : SubSeq(s, i + 1, i + Len(p)) = p

\* The index of the first token at or after i that is not whitespace
\* (Len(s) + 1 when there is none): where \s* stops.
RECURSIVE SkipSpaces(_, _)
SkipSpaces(s, i) ==
    IF i <= Len(s) /\ IsSpace(s[i]) THEN SkipSpaces(s, i + 1) ELSE i

SetMin(S) == CHOOSE x \in S : \A y \in S : x <= y

\* hashlib.sha256(...).hexdigest(): a collision-free digest of its argument.
sha256(s) == <<"sha256", s>>

\* ------------------------------------------------------------------------
\*  parse_sms
\* ------------------------------------------------------------------------

\* CURRENCY_RE
IsCurrency(t) == t \in {"KWD", "USD", "EUR"}

\* AMOUNT_RE: the number tokens of the model
IsAmount(t) == t \in {"3.500", "12"}

\* float(...) of a number token, in thousandths
AmountValue(t) ==
    CASE t = "3.500" -> 3500
      [] t = "12"    -> 12000

\* \d{4}-\d{2}-\d{2} : the date-shaped tokens of the model
IsDateShape(t) == t \in {"2026-01-15", "2026-13-15", "2026-03-01"}

\* \d{2}:\d{2}:\d{2}
IsTimeShape(t) == t \in {"10:00:00"}

\* the digits of a date-shaped token: <<year, month, day>>
DateFields(t) ==
    CASE t = "2026-01-15" -> <<2026, 1, 15>>
      [] t = "2026-13-15" -> <<2026, 13, 15>>
      [] t = "2026-03-01" -> <<2026, 3, 1>>

\* the digits of a time-shaped token: <<hour, minute, second>>
TimeFields(t) ==
    CASE t = "10:00:00" -> <<10, 0, 0>>

IsLeap(y) == (y % 4 = 0 /\ y % 100 # 0) \/ y % 400 = 0

DaysInMonth(y, m) ==
    CASE m \in {1, 3, 5, 7, 8, 10, 12} -> 31
      [] m \in {4, 6, 9, 11}           -> 30
      [] m = 2                         -> IF IsLeap(y) THEN 29 ELSE 28

\* Instants are seconds since 2026-01-01 00:00:00 UTC, the year the model's
\* clock and dates lie in.
RECURSIVE DaysBeforeYear(_)
DaysBeforeYear(y) ==
    IF y <= 2026 THEN 0
    ELSE DaysBeforeYear(y - 1) + (IF IsLeap(y - 1) THEN 366 ELSE 365)

RECURSIVE DaysBeforeMonth(_, _)
DaysBeforeMonth(y, m) ==
    IF m <= 1 THEN 0 ELSE DaysBeforeMonth(y, m - 1) + DaysInMonth(y, m - 1)

\* datetime(y, m, d, h, mi, s, tzinfo=utc) as seconds since 2026-01-01
Instant(y, m, d, h, mi, s) ==
    (((DaysBeforeYear(y) + DaysBeforeMonth(y, m) + (d - 1)) * 24 + h) * 60 + mi) * 60 + s

\* datetime.strptime(date_raw, "%Y-%m-%d %H:%M:%S") raises ValueError
\* unless the fields are a date and a time of day.
StrptimeOk(dtok, ttok) ==
    LET df == DateFields(dtok)
        tf == TimeFields(ttok)
    IN  /\ df[1] >= 1
        /\ df[2] \in 1..12
        /\ df[3] \in 1..DaysInMonth(df[1], df[2])
        /\ tf[1] \in 0..23
        /\ tf[2] \in 0..59
        /\ tf[3] \in 0..59

Strptime(dtok, ttok) ==
    LET df == DateFields(dtok)
        tf == TimeFields(ttok)
    IN  Instant(df[1], df[2], df[3], tf[1], tf[2], tf[3])

\* dt.isoformat(): the text of an instant
IsoFormat(t) == <<t>>

\* dt.strftime("%Y-%m-%d %H:%M:%S")
Strftime(t) == <<ToString(t)>>

\* re.search(rf"\b{CURRENCY_RE}\s+{AMOUNT_RE}\b", txt): the start positions
AmountMatches(txt) ==
    {i \in 1..Len(txt) :
        /\ IsCurrency(txt[i])
        /\ i + 1 <= Len(txt) /\ IsSpace(txt[i + 1])
        /\ SkipSpaces(txt, i + 1) <= Len(txt)
        /\ IsAmount(txt[SkipSpaces(txt, i + 1)])}

\* (?:\s+on\s+\d{4}-\d{2}-\d{2}\b|$) matched at position k
MerchantEnd(txt, k) ==
    \/ k > Len(txt)
    \/ /\ IsSpace(txt[k])
       /\ LET a == SkipSpaces(txt, k)
          IN  /\ a + 1 <= Len(txt)
              /\ LowerTok(txt[a]) = "on"
              /\ IsSpace(txt[a + 1])
              /\ SkipSpaces(txt, a + 1) <= Len(txt)
              /\ IsDateShape(txt[SkipSpaces(txt, a + 1)])

\* re.search(r"\b<word>\s+(.+?)(?:...)", txt, flags=re.IGNORECASE): the
\* start positions of <word>
MerchantMatches(txt, word) ==
    {i \in 1..Len(txt) :
        /\ LowerTok(txt[i]) = word
        /\ i + 1 <= Len(txt) /\ IsSpace(txt[i + 1])
        /\ SkipSpaces(txt, i + 1) <= Len(txt)}

\* group(1) of the leftmost match: the shortest span after <word>\s+ that
\* the terminator follows
MerchantGroup(txt, word) ==
    LET i     == SetMin(MerchantMatches(txt, word))
        start == SkipSpaces(txt, i + 1)
        e     == SetMin({k \in start..Len(txt) : MerchantEnd(txt, k + 1)})
    IN  SubSeq(txt, start, e)

\* re.search(DATE_RE, txt): the start positions
DateMatches(txt) ==
    {i \in 1..Len(txt) :
        /\ IsDateShape(txt[i])
        /\ i + 1 <= Len(txt) /\ IsSpace(txt[i + 1])
        /\ SkipSpaces(txt, i + 1) <= Len(txt)
        /\ IsTimeShape(txt[SkipSpaces(txt, i + 1)])}

\* the keyword heuristic over merchant_clean.lower()
CategoryHeuristic(merchant_clean) ==
    LET merch_l == Lower(merchant_clean)
    IN  IF \E k \in {"starbucks", "cafe", "coffee"} : IsInfix(<<k>>, merch_l)
        THEN <<"coffee">>
        ELSE IF \E k \in {"talabat", "pick", "restaurant", "burger", "pizza"} :
                    IsInfix(<<k>>, merch_l)
             THEN <<"food">>
             ELSE <<"other">>

parse_sms(sms, clock) ==
    LET txt   == Strip(sms)
        lower == Lower(txt)
        amts  == AmountMatches(txt)
        currency == IF amts # {} THEN <<txt[SetMin(amts)]>> ELSE <<"KWD">>
        amount   == IF amts # {}
                    THEN AmountValue(txt[SkipSpaces(txt, SetMin(amts) + 1)])
                    ELSE 0
        word  == IF MerchantMatches(txt, "for") # {} THEN "for" ELSE "from"
        merchant_raw ==
            IF MerchantMatches(txt, word) # {}
            THEN StripComma(Strip(MerchantGroup(txt, word)))
            ELSE <<>>
        merchant_clean == Strip(merchant_raw)
        dates == DateMatches(txt)
        di    == SetMin(dates)
        dj    == SkipSpaces(txt, di + 1)
        date_raw == IF dates # {} THEN SubSeq(txt, di, dj) ELSE Strftime(clock)
        date_iso ==
            IF dates # {}
            THEN IF StrptimeOk(txt[di], txt[dj])
                 THEN IsoFormat(Strptime(txt[di], txt[dj]))
                 ELSE <<>>
            ELSE IsoFormat(clock)
        direction == IF IsInfix(<<"credited">>, lower) THEN <<"income">>
                     ELSE <<"expense">>
    IN  [direction      |-> direction,
         amount         |-> amount,
         currency       |-> currency,
         merchant_raw   |-> merchant_raw,
         merchant_clean |-> merchant_clean,
         category       |-> CategoryHeuristic(merchant_clean),
         date_raw       |-> date_raw,
         date_iso       |-> date_iso,
         created_at     |-> date_iso,
         sms_raw        |-> txt]

\* ------------------------------------------------------------------------
\*  apply_rules
\* ------------------------------------------------------------------------

\* ORDER BY priority ASC, id ASC
RuleBefore(a, b) ==
    a.priority < b.priority \/ (a.priority = b.priority /\ a.id < b.id)

RECURSIVE SortRules(_)
SortRules(rs) ==
    IF rs = {} THEN <<>>
    ELSE LET r == CHOOSE x \in rs : \A o \in rs \ {x} : RuleBefore(x, o)
         IN  <<r>> \o SortRules(rs \ {r})

\* the same SELECT without its user_id condition
SelectRulesOfAll(table, user_id) == SortRules({r \in table : r.enabled = 1})

\* SELECT * FROM rules WHERE enabled = 1 AND user_id = ? ORDER BY ...
SelectRules(table, user_id) ==
    SortRules({r \in table : r.enabled = 1 /\ r.user_id = user_id})

\* What re.search(pattern, ...) does with the pattern before it searches:
\* a pattern with an unclosed group is refused with re.error; a repeat
\* count of 2**32 or more is refused with OverflowError ("the repetition
\* number is too large"), which is not an re.error.
ReCompile(pattern) ==
    IF \E i \in 1..Len(pattern) : pattern[i] = "("
    THEN "re.error"
    ELSE IF \E i \in 1..Len(pattern) : pattern[i] = "a{4294967296}"
         THEN "OverflowError"
         ELSE "ok"

\* re.search(pattern, target, flags=re.IGNORECASE) is not None, for a
\* pattern of literal words
ReSearch(pattern, target) == IsInfix(Lower(pattern), Lower(target))

\* target = merch_l if match_field == "merchant" else ""
RuleTarget(r, merch_l) ==
    IF Lower(r.match_field) = <<"merchant">> THEN merch_l ELSE <<>>

\* the exception classes the rule's try block lets through
RuleRaises(r) ==
    /\ Lower(r.match_type) = <<"regex">>
    /\ ReCompile(r.pattern) \notin {"ok", "re.error"}

\* a contains test that forgets to fold the case of the pattern
RuleOkCaseSensitive(r, merch_l) ==
    LET match_type == Lower(r.match_type)
        target     == RuleTarget(r, merch_l)
    IN  CASE match_type = <<"contains">> -> IsInfix(r.pattern, target)
          [] match_type = <<"equals">>   -> Lower(r.pattern) = target
          [] match_type = <<"regex">>    ->
                IF ReCompile(r.pattern) = "re.error" THEN FALSE
                ELSE ReSearch(r.pattern, target)
          [] OTHER -> FALSE

\* ok, for a rule that does not raise
RuleOk(r, merch_l) ==
    LET match_type == Lower(r.match_type)
        target     == RuleTarget(r, merch_l)
    IN  CASE match_type = <<"contains">> -> IsInfix(Lower(r.pattern), target)
          [] match_type = <<"equals">>   -> Lower(r.pattern) = target
          [] match_type = <<"regex">>    ->
                IF ReCompile(r.pattern) = "re.error" THEN FALSE
                ELSE ReSearch(r.pattern, target)
          [] OTHER -> FALSE

\* a rule pass that also resets the amount of the record it rewrites
RuleEffectAmount(r, current) ==
    [current EXCEPT
        !.category       = IF Truthy(r.set_category) THEN r.set_category ELSE @,
        !.merchant_clean = IF Truthy(r.set_merchant_clean)
                           THEN r.set_merchant_clean ELSE @,
        !.amount         = 0]

\* if ok: the two assignments to current
RuleEffect(r, current) ==
    [current EXCEPT
        !.category       = IF Truthy(r.set_category) THEN r.set_category ELSE @,
        !.merchant_clean = IF Truthy(r.set_merchant_clean)
                           THEN r.set_merchant_clean ELSE @]

\* for r in rules: ...   (raised: an exception left the loop)
RECURSIVE RulePass(_, _, _)
RulePass(rs, merch_l, current) ==
    IF rs = <<>> THEN [raised |-> FALSE, current |-> current]
    ELSE IF RuleRaises(Head(rs)) THEN [raised |-> TRUE, current |-> current]
    ELSE RulePass(Tail(rs), merch_l,
                  IF RuleOk(Head(rs), merch_l)
                  THEN RuleEffect(Head(rs), current) ELSE current)

apply_rules(table, user_id, merchant, current) ==
    RulePass(SelectRules(table, user_id),
             Lower(IF Truthy(merchant) THEN merchant ELSE <<>>),
             current)

\* ------------------------------------------------------------------------
\*  State
\* ------------------------------------------------------------------------

VARIABLES
    expenses,          \* the rows of table expenses
    expenses_seq,      \* its AUTOINCREMENT counter: the largest id ever used
    rules,             \* the rows of table rules
    rules_seq,
    deleted_expenses,  \* the rows of table deleted_expenses
    deleted_seq,
    now,               \* datetime.now(timezone.utc)
    pc,                \* where each request worker stands
    local,             \* the local variables of the request it serves
    ticks,             \* how often the clock has advanced
    started,           \* requests received so far
    done,              \* requests answered so far
    lastDone           \* the request answered last, with its response

vars == <<expenses, expenses_seq, rules, rules_seq, deleted_expenses,
          deleted_seq, now, ticks, pc, local, started, done, lastDone>>

\* The request workers: the handlers of two worker processes over one
\* database file interleave between their SQL statements.
Procs == {1, 2}

\* A request is taken by the first idle worker: the workers are
\* interchangeable, so which idle one takes it changes nothing.
Dispatch(p) == pc[p] = "idle" /\ \A q \in Procs : q < p => pc[q] # "idle"

API_KEY == <<"ElPortichuelo99">>

IdleLocal == [op |-> "none"]

NoResponse == [status |-> 0, body |-> [none |-> TRUE]]

Init ==
    /\ expenses = {}
    /\ expenses_seq = 0
    /\ rules = {}
    /\ rules_seq = 0
    /\ deleted_expenses = {}
    /\ deleted_seq = 0
    /\ now = Instant(2026, 2, 1, 0, 0, 0)
    /\ ticks = 0
    /\ pc = [p \in Procs |-> "idle"]
    /\ local = [p \in Procs |-> IdleLocal]
    /\ started = 0
    /\ done = 0
    /\ lastDone = [n |-> 0, op |-> "none", payload |-> [none |-> TRUE],
                   resp |-> NoResponse, began |-> 0]

\* The worker p answers r.  `began` is the number of requests that had been
\* answered when this one arrived: it ran alone (no other request was
\* answered, so no other request wrote, while it ran) when began = n - 1.
Answer(p, op, payload, began, r) ==
    /\ pc' = [pc EXCEPT ![p] = "idle"]
    /\ local' = [local EXCEPT ![p] = IdleLocal]
    /\ done' = done + 1
    /\ lastDone' = [n |-> done + 1, op |-> op, payload |-> payload,
                    resp |-> r, began |-> began]

\* ------------------------------------------------------------------------
\*  POST /ingest
\* ------------------------------------------------------------------------

\* a request model whose user field is optional
IngestRequestHasSms(payload) == payload.has_sms

\* IngestRequest: both fields are required strings (a missing field is a
\* 422 of the framework, before the handler runs).
IngestRequestValid(payload) == payload.has_userid /\ payload.has_sms

\* sms_hash = sha256((sms or "").strip())
SmsHash(sms) == sha256(Strip(sms))

\* row_hash = sha256(f"{user_id}|{amount}|{currency}|{merchant_clean}|{date_iso}|{sms_hash}")
RowHash(user_id, parsed, sms_hash) ==
    sha256(<<user_id, parsed.amount, parsed.currency, parsed.merchant_clean,
             parsed.date_iso, sms_hash>>)

\* an existence check that compares the row hash column instead
FindByRowHash(table, sms_hash) == {r.id : r \in {x \in table : x.hash = sms_hash}}

\* SELECT id FROM expenses WHERE sms_hash = ?
FindBySmsHash(table, sms_hash) == {r.id : r \in {x \in table : x.sms_hash = sms_hash}}

\* a table that has only the unique index on the row hash
UniqueViolationRowHash(table, row) == \E r \in table : r.hash = row.hash

\* the two unique indexes of expenses: ux_expenses_hash, idx_expenses_sms_hash
UniqueViolation(table, row) ==
    \E r \in table : r.hash = row.hash \/ r.sms_hash = row.sms_hash

\* the row the INSERT of ingest writes: direction is not among its columns
IngestRow(id, l) ==
    [id             |-> id,
     user_id        |-> l.user_id,
     sms            |-> l.sms,
     amount         |-> l.parsed.amount,
     currency       |-> l.parsed.currency,
     merchant_raw   |-> l.parsed.merchant_raw,
     merchant_clean |-> l.parsed.merchant_clean,
     category       |-> l.parsed.category,
     direction      |-> None,
     hash           |-> l.row_hash,
     created_at     |-> l.parsed.created_at,
     date_raw       |-> l.parsed.date_raw,
     date_iso       |-> l.parsed.date_iso,
     sms_hash       |-> l.sms_hash,
     sms_raw        |-> l.parsed.sms_raw]

RespInserted(id) ==
    [status |-> 200, body |-> [inserted |-> TRUE, id |-> {id}, existing |-> {}]]

\* a duplicate answered without the id of the row found
RespDuplicateNoId(id) ==
    [status |-> 200, body |-> [inserted |-> FALSE, id |-> {}, existing |-> {}]]

RespDuplicate(id) ==
    [status |-> 200, body |-> [inserted |-> FALSE, id |-> {}, existing |-> {id}]]

RespIntegrityError ==
    [status |-> 200, body |-> [inserted |-> FALSE, id |-> {}, existing |-> {}]]

RespError(code) == [status |-> code, body |-> [ok |-> FALSE]]

\* lines 405-423: validation, strip, parse_sms, apply_rules (its read of rules)
IngestStart(p, payload) ==
    /\ Dispatch(p)
    /\ started' = started + 1
    /\ IF ~IngestRequestValid(payload)
       THEN Answer(p, "ingest", payload, done, RespError(422))
       ELSE LET user_id  == Strip(payload.userid)
                sms      == Strip(payload.sms)
                parsed   == parse_sms(sms, now)
                ruled    == apply_rules(rules, user_id, parsed.merchant_clean, parsed)
                sms_hash == SmsHash(sms)
            IN  IF ruled.raised
                THEN Answer(p, "ingest", payload, done, RespError(500))
                ELSE /\ pc' = [pc EXCEPT ![p] = "ingest_check"]
                     /\ local' = [local EXCEPT ![p] =
                            [op       |-> "ingest",
                             payload  |-> payload,
                             began    |-> done,
                             arrived  |-> now,
                             user_id  |-> user_id,
                             sms      |-> sms,
                             extracted |-> parsed,
                             parsed   |-> ruled.current,
                             sms_hash |-> sms_hash,
                             row_hash |-> RowHash(user_id, ruled.current, sms_hash)]]
                     /\ UNCHANGED <<done, lastDone>>
    /\ UNCHANGED <<expenses, expenses_seq, rules, rules_seq, deleted_expenses,
                   deleted_seq, now, ticks>>

\* lines 432-437: the existence check
IngestCheck(p) ==
    /\ pc[p] = "ingest_check"
    /\ LET existing == FindBySmsHash(expenses, local[p].sms_hash)
       IN  IF existing # {}
           THEN Answer(p, "ingest", local[p].payload, local[p].began,
                       RespDuplicate(CHOOSE id \in existing : TRUE))
           ELSE /\ pc' = [pc EXCEPT ![p] = "ingest_insert"]
                /\ UNCHANGED <<local, done, lastDone>>
    /\ UNCHANGED <<expenses, expenses_seq, rules, rules_seq, deleted_expenses,
                   deleted_seq, now, ticks, started>>

\* lines 439-469: INSERT, commit; sqlite3.IntegrityError is answered
IngestInsert(p) ==
    /\ pc[p] = "ingest_insert"
    /\ LET row == IngestRow(expenses_seq + 1, local[p])
       IN  IF UniqueViolation(expenses, row)
           THEN /\ Answer(p, "ingest", local[p].payload, local[p].began,
                          RespIntegrityError)
                /\ UNCHANGED <<expenses, expenses_seq>>
           ELSE /\ expenses' = expenses \cup {row}
                /\ expenses_seq' = row.id
                /\ Answer(p, "ingest", local[p].payload, local[p].began,
                          RespInserted(row.id))
    /\ UNCHANGED <<rules, rules_seq, deleted_expenses, deleted_seq, now, ticks,
                   started>>

\* ------------------------------------------------------------------------
\*  POST /rules
\* ------------------------------------------------------------------------

create_rule(p, rule) ==
    /\ Dispatch(p)
    /\ started' = started + 1
    /\ rules' = rules \cup
          {[id                 |-> rules_seq + 1,
            user_id            |-> rule.user_id,
            enabled            |-> IF rule.enabled THEN 1 ELSE 0,
            priority           |-> rule.priority,
            match_field        |-> rule.match_field,
            match_type         |-> rule.match_type,
            pattern            |-> rule.pattern,
            set_category       |-> rule.set_category,
            set_merchant_clean |-> rule.set_merchant_clean,
            created_at         |-> IsoFormat(now)]}
    /\ rules_seq' = rules_seq + 1
    /\ Answer(p, "create_rule", rule, done,
              [status |-> 200, body |-> [created |-> TRUE, id |-> {rules_seq + 1}]])
    /\ UNCHANGED <<expenses, expenses_seq, deleted_expenses, deleted_seq, now,
                   ticks>>

\* ------------------------------------------------------------------------
\*  DELETE /expense/{expense_id}
\* ------------------------------------------------------------------------

\* the first delete_expense of the file: its route stays registered
delete_expense_by_path(p, payload) ==
    /\ Dispatch(p)
    /\ started' = started + 1
    /\ LET hit == {r \in expenses : r.id = payload.id /\ r.user_id = payload.user_id}
       IN  /\ expenses' = expenses \ hit
           /\ Answer(p, "delete_by_path", payload, done,
                     [status |-> 200,
                      body |-> [deleted |-> hit # {}, id |-> {payload.id}]])
    /\ UNCHANGED <<expenses_seq, rules, rules_seq, deleted_expenses, deleted_seq,
                   now, ticks>>

\* ------------------------------------------------------------------------
\*  POST /delete and POST /undo_delete
\* ------------------------------------------------------------------------

\* check_key
KeyOk(api_key) == api_key = API_KEY

\* json.dumps(row_dict, ensure_ascii=False): the text of a row
JsonDumps(row) == <<"json", row>>

\* json.loads(row_json)
JsonLoads(text) == text[2]

\* a parse that reads the UTC text as local time, one hour off
FromIsoFormatLocal(text) == text[1] - 3600

\* datetime.fromisoformat(...)
FromIsoFormat(text) == text[1]

\* if age > 10
UndoWindow == 10

\* lines 734-759: the key, the arguments, the SELECT of the row
DeleteStart(p, payload) ==
    /\ Dispatch(p)
    /\ started' = started + 1
    /\ LET found == {r \in expenses :
                        r.id \in payload.id /\ r.user_id = payload.userid}
       IN  IF ~KeyOk(payload.api_key)
           THEN Answer(p, "delete", payload, done, RespError(401))
           ELSE IF ~Truthy(payload.userid) \/ payload.id = {}
           THEN Answer(p, "delete", payload, done, RespError(400))
           ELSE IF found = {}
           THEN Answer(p, "delete", payload, done, RespError(404))
           ELSE /\ pc' = [pc EXCEPT ![p] = "delete_write"]
                /\ local' = [local EXCEPT ![p] =
                       [op         |-> "delete",
                        payload    |-> payload,
                        began      |-> done,
                        user_id    |-> payload.userid,
                        row_id     |-> CHOOSE i \in payload.id : TRUE,
                        row_dict   |-> CHOOSE r \in found : TRUE,
                        deleted_at |-> IsoFormat(now)]]
                /\ UNCHANGED <<done, lastDone>>
    /\ UNCHANGED <<expenses, expenses_seq, rules, rules_seq, deleted_expenses,
                   deleted_seq, now, ticks>>

\* lines 761-768: INSERT INTO deleted_expenses, DELETE FROM expenses, commit
DeleteWrite(p) ==
    /\ pc[p] = "delete_write"
    /\ LET l == local[p]
       IN  /\ deleted_expenses' = deleted_expenses \cup
                 {[id          |-> deleted_seq + 1,
                   user_id     |-> l.user_id,
                   original_id |-> l.row_id,
                   row_json    |-> JsonDumps(l.row_dict),
                   deleted_at  |-> l.deleted_at]}
           /\ deleted_seq' = deleted_seq + 1
           /\ expenses' = {r \in expenses :
                              ~(r.id = l.row_id /\ r.user_id = l.user_id)}
           /\ Answer(p, "delete", l.payload, l.began,
                     [status |-> 200,
                      body |-> [ok |-> TRUE, deleted_id |-> {l.row_id},
                                deleted_at |-> l.deleted_at]])
    /\ UNCHANGED <<expenses_seq, rules, rules_seq, now, ticks, started>>

\* the same SELECT with ORDER BY id ASC
OldestDeleted(table, user_id) ==
    {d \in table : /\ d.user_id = user_id
                   /\ \A o \in table : o.user_id = user_id => o.id >= d.id}

\* SELECT ... FROM deleted_expenses WHERE user_id=? ORDER BY id DESC LIMIT 1
LatestDeleted(table, user_id) ==
    {d \in table : /\ d.user_id = user_id
                   /\ \A o \in table : o.user_id = user_id => o.id <= d.id}

\* lines 830-854: the key, the argument, the SELECT of the entry, its age
UndoStart(p, payload) ==
    /\ Dispatch(p)
    /\ started' = started + 1
    /\ LET latest == LatestDeleted(deleted_expenses, payload.userid)
       IN  IF ~KeyOk(payload.api_key)
           THEN Answer(p, "undo_delete", payload, done, RespError(401))
           ELSE IF ~Truthy(payload.userid)
           THEN Answer(p, "undo_delete", payload, done, RespError(400))
           ELSE IF latest = {}
           THEN Answer(p, "undo_delete", payload, done, RespError(404))
           ELSE LET d == CHOOSE x \in latest : TRUE
                IN  IF now - FromIsoFormat(d.deleted_at) > UndoWindow
                    THEN Answer(p, "undo_delete", payload, done, RespError(400))
                    ELSE /\ pc' = [pc EXCEPT ![p] = "undo_write"]
                         /\ local' = [local EXCEPT ![p] =
                                [op      |-> "undo_delete",
                                 payload |-> payload,
                                 began   |-> done,
                                 d       |-> d]]
                         /\ UNCHANGED <<done, lastDone>>
    /\ UNCHANGED <<expenses, expenses_seq, rules, rules_seq, deleted_expenses,
                   deleted_seq, now, ticks>>

\* lines 856-878: INSERT with the original id, else without it; DELETE of
\* the entry; commit.  An exception of the second INSERT leaves the handler
\* and the connection is closed without a commit.
UndoWrite(p) ==
    /\ pc[p] = "undo_write"
    /\ LET l   == local[p]
           row == JsonLoads(l.d.row_json)
           id_taken == \E r \in expenses : r.id = row.id
           fresh    == [row EXCEPT !.id = expenses_seq + 1]
       IN  IF ~id_taken /\ ~UniqueViolation(expenses, row)
           THEN /\ expenses' = expenses \cup {row}
                /\ expenses_seq' = IF row.id > expenses_seq THEN row.id
                                   ELSE expenses_seq
                /\ deleted_expenses' = {d \in deleted_expenses : d.id # l.d.id}
                /\ Answer(p, "undo_delete", l.payload, l.began,
                          [status |-> 200,
                           body |-> [ok |-> TRUE, restored_id |-> {row.id}]])
           ELSE IF ~UniqueViolation(expenses, fresh)
           THEN /\ expenses' = expenses \cup {fresh}
                /\ expenses_seq' = fresh.id
                /\ deleted_expenses' = {d \in deleted_expenses : d.id # l.d.id}
                /\ Answer(p, "undo_delete", l.payload, l.began,
                          [status |-> 200,
                           body |-> [ok |-> TRUE, restored_id |-> {fresh.id}]])
           ELSE /\ Answer(p, "undo_delete", l.payload, l.began, RespError(500))
                /\ UNCHANGED <<expenses, expenses_seq, deleted_expenses>>
    /\ UNCHANGED <<rules, rules_seq, deleted_seq, now, ticks, started>>

\* ------------------------------------------------------------------------
\*  The clock
\* ------------------------------------------------------------------------

Tick(delta) ==
    /\ now' = now + delta
    /\ ticks' = ticks + 1
    /\ UNCHANGED <<expenses, expenses_seq, rules, rules_seq, deleted_expenses,
                   deleted_seq, pc, local, started, done, lastDone>>

\* ------------------------------------------------------------------------
\*  The requests the model draws
\* ------------------------------------------------------------------------

Pedro == <<"pedro">>
Ana == <<"ana">>

\* a dated purchase, the scenario of the README of the rules
TextStarbucks ==
    <<"KWD", SP, "3.500", SP, "debited", SP, "for", SP, "STARBUCKS", SP,
      "on", SP, "2026-01-15", SP, "10:00:00">>

\* the same purchase in other words: "paid" for "debited"
TextStarbucksPaid ==
    <<"KWD", SP, "3.500", SP, "paid", SP, "for", SP, "STARBUCKS", SP,
      "on", SP, "2026-01-15", SP, "10:00:00">>

\* the same shape with month 13
TextBadDate ==
    <<"USD", SP, "12", SP, "paid", SP, "for", SP, "Talabat", SP,
      "on", SP, "2026-13-15", SP, "10:00:00">>

\* nothing the extractor recognises
TextPlain == <<"hello">>

TextEmpty == <<>>

\* one text with a single space and with a run of two between its words
TextHelloWorld == <<"hello", SP, "world">>

TextHelloWorldWide == <<"hello", SP, SP, "world">>

IngestPayload(u, t) ==
    [has_userid |-> TRUE, userid |-> u, has_sms |-> TRUE, sms |-> t]

\* a body without "userid", a body without "sms"
MissingUserid(t) ==
    [has_userid |-> FALSE, userid |-> <<>>, has_sms |-> TRUE, sms |-> t]

MissingSms(u) ==
    [has_userid |-> TRUE, userid |-> u, has_sms |-> FALSE, sms |-> <<>>]

RulePayload(u, en, prio, field, type, pattern, cat, merch) ==
    [user_id |-> u, enabled |-> en, priority |-> prio,
     match_field |-> <<field>>, match_type |-> <<type>>, pattern |-> pattern,
     set_category |-> cat, set_merchant_clean |-> merch]

\* scenario 3 of the specification: STARBUCKS -> beverages, priority 10
RuleBeverages ==
    RulePayload(Pedro, TRUE, 10, "merchant", "contains", <<"STARBUCKS">>,
                <<"beverages">>, None)

\* a later rule on the same merchant that also renames it
RuleTreats ==
    RulePayload(Pedro, TRUE, 20, "merchant", "contains", <<"starbucks">>,
                <<"treats">>, <<"Sbux">>)

\* regex rules: one that compiles, one with an unclosed group, one with a
\* repeat count past the engine's limit
RuleRegexOk ==
    RulePayload(Pedro, TRUE, 15, "merchant", "regex", <<"talabat">>,
                <<"delivery">>, None)

RuleRegexBad ==
    RulePayload(Pedro, TRUE, 15, "merchant", "regex", <<"(">>,
                <<"broken">>, None)

RuleRegexHuge ==
    RulePayload(Pedro, TRUE, 30, "merchant", "regex", <<"a{4294967296}">>,
                <<"huge">>, None)

\* the requests of the concurrent specification
IngestPayloads ==
    {IngestPayload(Pedro, TextStarbucks), IngestPayload(Ana, TextStarbucks),
     IngestPayload(Pedro, TextPlain)}

RulePayloads == {RuleBeverages}

DeletePayloads ==
    {[api_key |-> API_KEY, userid |-> u, id |-> {i}] :
        u \in {Pedro, Ana}, i \in 1..expenses_seq}
    \cup {[api_key |-> <<"guess">>, userid |-> Pedro, id |-> {1}]}

UndoPayloads ==
    {[api_key |-> API_KEY, userid |-> u] : u \in {Pedro, Ana}}

PathDeletePayloads ==
    {[user_id |-> u, id |-> i] : u \in {Pedro}, i \in 1..expenses_seq}

TickSteps == {UndoWindow, UndoWindow + 1}

\* ------------------------------------------------------------------------
\*  Specification: two workers, interleaved between SQL statements
\* ------------------------------------------------------------------------

MaxRequests == 3
MaxTicks == 1

Next ==
    \/ \E p \in Procs, payload \in IngestPayloads :
          started < MaxRequests /\ IngestStart(p, payload)
    \/ \E p \in Procs : IngestCheck(p)
    \/ \E p \in Procs : IngestInsert(p)
    \/ \E p \in Procs, rule \in RulePayloads :
          started < MaxRequests /\ create_rule(p, rule)
    \/ \E p \in Procs, payload \in DeletePayloads :
          started < MaxRequests /\ DeleteStart(p, payload)
    \/ \E p \in Procs : DeleteWrite(p)
    \/ \E p \in Procs, payload \in UndoPayloads :
          started < MaxRequests /\ UndoStart(p, payload)
    \/ \E p \in Procs : UndoWrite(p)
    \/ \E p \in Procs, payload \in PathDeletePayloads :
          started < MaxRequests /\ delete_expense_by_path(p, payload)
    \/ \E delta \in TickSteps : ticks < MaxTicks /\ Tick(delta)

Spec == Init /\ [][Next]_vars

\* ------------------------------------------------------------------------
\*  Specification: one worker, each request served before the next arrives
\*  (the pipeline over a wider choice of texts and rules)
\* ------------------------------------------------------------------------

\* a rule that is switched off, a rule of another user, a rule on the message
RuleDisabled ==
    RulePayload(Pedro, FALSE, 5, "merchant", "contains", <<"STARBUCKS">>,
                <<"hidden">>, None)

RuleOfAna ==
    RulePayload(Ana, TRUE, 5, "merchant", "contains", <<"STARBUCKS">>,
                <<"anas">>, None)

\* a rule on the text of the message
RuleOnMessage ==
    RulePayload(Pedro, TRUE, 40, "message", "contains", <<"debited">>,
                <<"debits">>, None)

PipelineIngestPayloads ==
    {IngestPayload(Pedro, t) :
        t \in {TextStarbucks, TextBadDate, TextPlain, TextEmpty, <<SP>>}}
    \cup {IngestPayload(Ana, TextStarbucks), IngestPayload(<<>>, TextPlain),
          MissingUserid(TextPlain), MissingSms(Pedro)}
    \cup {IngestPayload(Pedro, TextStarbucksPaid)}
    \cup {IngestPayload(Pedro, TextHelloWorld),
          IngestPayload(Pedro, TextHelloWorldWide)}

PipelineRulePayloads ==
    {RuleBeverages, RuleTreats, RuleRegexOk, RuleRegexBad, RuleRegexHuge,
     RuleDisabled, RuleOfAna, RuleOnMessage}

MaxPipelineRequests == 3

NextPipeline ==
    \/ \E payload \in PipelineIngestPayloads :
          started < MaxPipelineRequests /\ IngestStart(1, payload)
    \/ IngestCheck(1)
    \/ IngestInsert(1)
    \/ \E rule \in PipelineRulePayloads :
          started < MaxPipelineRequests /\ create_rule(1, rule)

SpecPipeline == Init /\ [][NextPipeline]_vars

\* ------------------------------------------------------------------------
\*  Specification: one worker over ingest, /delete and /undo_delete, for
\*  runs long enough to hold several entries in the trash
\* ------------------------------------------------------------------------

TrashIngestPayloads ==
    {IngestPayload(Pedro, TextPlain), IngestPayload(Pedro, TextHelloWorld),
     IngestPayload(Ana, TextStarbucks)}

TrashDeletePayloads ==
    {[api_key |-> API_KEY, userid |-> u, id |-> {i}] :
        u \in {Pedro, Ana}, i \in 1..expenses_seq}

MaxTrashRows == 2
MaxTrashRequests == 5

NextTrash ==
    \/ \E payload \in TrashIngestPayloads :
          /\ started < MaxTrashRequests /\ expenses_seq < MaxTrashRows
          /\ IngestStart(1, payload)
    \/ IngestCheck(1)
    \/ IngestInsert(1)
    \/ \E payload \in TrashDeletePayloads :
          started < MaxTrashRequests /\ DeleteStart(1, payload)
    \/ DeleteWrite(1)
    \/ \E payload \in UndoPayloads :
          started < MaxTrashRequests /\ UndoStart(1, payload)
    \/ UndoWrite(1)
    \/ \E delta \in TickSteps : ticks < MaxTicks /\ Tick(delta)

SpecTrash == Init /\ [][NextTrash]_vars

\* ------------------------------------------------------------------------
\*  Properties
\* ------------------------------------------------------------------------

\* the request answered last ran alone
RanAlone(d) == d.began = d.n - 1

RowsOfText(table, sms) == {r \in table : r.sms_hash = SmsHash(sms)}

\* C1: two ingest calls in sequence with the same user_id and text (the
\* second arrives after the first is answered; nothing else is answered
\* while either runs or between them).  A call that finds no row of the
\* text and gets through the pipeline reports inserted=true with the id of
\* the one row it adds, an id no row held before; if the first call
\* reported inserted=true, the second reports inserted=false and the same
\* id as existing, and exactly one row holds the text.
C1_IngestTwice ==
    [][done' = done + 1 /\ lastDone'.op = "ingest" /\ RanAlone(lastDone')
       /\ lastDone'.resp.status = 200
       =>
       /\ RowsOfText(expenses, lastDone'.payload.sms) = {}
          => /\ lastDone'.resp.body.inserted
             /\ \E row \in expenses' :
                   /\ expenses' = expenses \cup {row}
                   /\ row.id > expenses_seq
                   /\ \A r \in expenses : r.id # row.id
                   /\ row.sms_hash = SmsHash(lastDone'.payload.sms)
                   /\ lastDone'.resp = RespInserted(row.id)
       /\ ( /\ lastDone.op = "ingest" /\ RanAlone(lastDone)
            /\ lastDone.payload = lastDone'.payload
            /\ lastDone.resp.status = 200 /\ lastDone.resp.body.inserted )
          => /\ ~lastDone'.resp.body.inserted
             /\ lastDone'.resp.body.existing = lastDone.resp.body.id
             /\ expenses' = expenses
             /\ Cardinality(RowsOfText(expenses', lastDone'.payload.sms)) = 1
             /\ \A r \in RowsOfText(expenses', lastDone'.payload.sms) :
                   r.id \in lastDone.resp.body.id
      ]_vars

\* C1 witness: two requests were served, the second a duplicate of the row
\* the first inserted for the same user and text.
C1_Witness ==
    /\ started = 2 /\ done = 2
    /\ lastDone.op = "ingest" /\ RanAlone(lastDone)
    /\ lastDone.resp.status = 200 /\ ~lastDone.resp.body.inserted
    /\ \E r \in expenses :
          /\ r.id \in lastDone.resp.body.existing
          /\ r.user_id = Strip(lastDone.payload.userid)
          /\ r.sms_hash = SmsHash(lastDone.payload.sms)

\* C2: in every reachable state the expenses table holds at most one row
\* per sms_hash.
C2_OneRowPerSmsHash ==
    \A r1, r2 \in expenses : r1.sms_hash = r2.sms_hash => r1 = r2

\* C2 witness: two ingest calls of one text overlapped, both passed the
\* existence check, and the INSERT of the later one was refused.
C2_Witness ==
    /\ lastDone.op = "ingest"
    /\ lastDone.resp = RespIntegrityError
    /\ RowsOfText(expenses, lastDone.payload.sms) # {}

\* C3 (as claimed): an ingest call answered inserted=false always names the
\* existing row, also when it lost the race and its INSERT was refused.
C3_LoserNamesWinner ==
    (lastDone.op = "ingest" /\ lastDone.resp.status = 200
        /\ ~lastDone.resp.body.inserted)
    => \E r \in RowsOfText(expenses, lastDone.payload.sms) :
          lastDone.resp.body.existing = {r.id}

\* ------------------------------------------------------------------------
\*  The rule pass and the extractor, over the one-worker specification
\* ------------------------------------------------------------------------

\* the rows an INSERT of this step adds
NewRows == expenses' \ expenses

\* the enabled rules of a user that match a merchant and set a category
MatchingRules(user_id, merchant) ==
    {r \in rules :
        /\ r.user_id = user_id /\ r.enabled = 1
        /\ ~RuleRaises(r)
        /\ RuleOk(r, Lower(merchant))
        /\ Truthy(r.set_category)}

\* C4 (as claimed): when exactly two enabled rules A and B of the user
\* match the merchant of the ingested message and set a category, and A
\* has the lower priority number, the row ingest persists carries the
\* category of A.
C4_LowerPriorityWins ==
    [][\A row \in NewRows :
          \A a, b \in rules :
             ( /\ MatchingRules(row.user_id, local[1].extracted.merchant_clean)
                     = {a, b}
               /\ a.priority < b.priority )
             => row.category = a.set_category
      ]_vars

\* the enabled regex rules of a user whose pattern the engine refuses
InvalidRegexRules(user_id) ==
    {r \in rules :
        /\ r.user_id = user_id /\ r.enabled = 1
        /\ Lower(r.match_type) = <<"regex">>
        /\ ReCompile(r.pattern) # "ok"}

\* C5 (as claimed): when the user has an enabled regex rule whose pattern
\* is not a valid regular expression, an ingest call of that user still
\* completes (it is not answered with an error), and the row it persists
\* is the one the other rules of the user produce: the invalid rule counts
\* as non-matching and every other rule is still applied.
C5_InvalidRegexIsolated ==
    [][( /\ done' = done + 1
         /\ lastDone'.op = "ingest"
         /\ IngestRequestValid(lastDone'.payload)
         /\ InvalidRegexRules(Strip(lastDone'.payload.userid)) # {} )
       => /\ lastDone'.resp.status = 200
          /\ \A row \in NewRows :
                LET others == rules \ InvalidRegexRules(row.user_id)
                    pass   == apply_rules(others, row.user_id,
                                          local[1].extracted.merchant_clean,
                                          local[1].extracted)
                IN  /\ ~pass.raised
                    /\ row.category = pass.current.category
                    /\ row.merchant_clean = pass.current.merchant_clean
      ]_vars

\* the fields the rule pass has to leave alone
SameExtraction(after, extracted) ==
    /\ after.amount = extracted.amount
    /\ after.currency = extracted.currency
    /\ after.date_raw = extracted.date_raw
    /\ after.date_iso = extracted.date_iso
    /\ after.created_at = extracted.created_at

\* C6: for every set of rules and every message, the record after
\* apply_rules, and the row ingest persists from it, carry the amount,
\* currency, date_raw, date_iso and created_at the extractor produced.
C6_RulesKeepExtraction ==
    [][/\ local'[1].op = "ingest"
          => SameExtraction(local'[1].parsed, local'[1].extracted)
       /\ \A row \in NewRows : SameExtraction(row, local[1].extracted)
      ]_vars

\* C6 witness: a row was persisted whose category a rule has set (the
\* extractor's heuristic says coffee), with the amount of the message.
C6_Witness ==
    \E row \in expenses :
       /\ lastDone.op = "ingest" /\ lastDone.resp = RespInserted(row.id)
       /\ row.category = <<"beverages">>
       /\ row.amount = AmountValue("3.500")
       /\ row.date_iso = IsoFormat(Instant(2026, 1, 15, 10, 0, 0))

\* C7 (as claimed): for every text, ingest does not raise (a request that
\* carries both fields is never answered with an error), and every row
\* persisted has a non-null category and a non-null merchant_clean.
C7_IngestNeverRaises ==
    /\ (lastDone.op = "ingest" /\ IngestRequestValid(lastDone.payload))
          => lastDone.resp.status = 200
    /\ \A r \in expenses : r.category # None /\ r.merchant_clean # None

\* C8 (as claimed): the occurred_at (date_iso) of every persisted row is a
\* timestamp, never empty, also when the message carries a date-shaped
\* substring that does not parse.
C8_OccurredAtNeverEmpty ==
    \A r \in expenses : r.date_iso # <<>>

\* C9 (as claimed): the created_at of a row ingest persists is the instant
\* of the ingest call (between its arrival and its INSERT), also when the
\* message carries an earlier date.
C9_CreatedAtIsIngestTime ==
    [][\A row \in NewRows :
          \E t \in local[1].arrived .. now : row.created_at = IsoFormat(t)
      ]_vars

\* a request the specification calls malformed
Malformed(payload) ==
    \/ ~payload.has_userid \/ ~payload.has_sms
    \/ payload.userid = <<>>
    \/ Strip(payload.sms) = <<>>

\* C10 (as claimed): an ingest request whose user_id is missing or empty,
\* or whose text is empty after trimming, is rejected as invalid input
\* (422) and the expenses table is unchanged.
C10_EmptyRejected ==
    [][( /\ done' = done + 1
         /\ lastDone'.op = "ingest"
         /\ Malformed(lastDone'.payload) )
       => /\ lastDone'.resp.status = 422
          /\ expenses' = expenses
      ]_vars

\* C10 (amended): an ingest request that lacks the userid or the sms field
\* is rejected as invalid input (422) in the step it arrives, before the
\* pipeline runs, and the expenses table is unchanged; a request that
\* carries both fields is never rejected as invalid input, also when the
\* user_id or the text is empty.
C10_MissingFieldRejected ==
    [][( done' = done + 1 /\ lastDone'.op = "ingest" )
       => IF ~lastDone'.payload.has_userid \/ ~lastDone'.payload.has_sms
          THEN /\ lastDone'.resp.status = 422
               /\ started' = started + 1
               /\ expenses' = expenses
          ELSE lastDone'.resp.status # 422
      ]_vars

\* C10 witness: a request without the userid field was rejected while the
\* table held a row.
C10_Witness ==
    /\ lastDone.op = "ingest"
    /\ ~lastDone.payload.has_userid
    /\ lastDone.resp.status = 422
    /\ expenses # {}

\* ------------------------------------------------------------------------
\*  Fingerprints
\* ------------------------------------------------------------------------

\* the message of the row carries a date of its own
Dated(r) == DateMatches(Strip(r.sms)) # {}

\* two rows of one user with the same extracted transaction
SameTransaction(r1, r2) ==
    /\ r1.user_id = r2.user_id
    /\ r1.amount = r2.amount
    /\ r1.currency = r2.currency
    /\ r1.merchant_clean = r2.merchant_clean
    /\ r1.date_iso = r2.date_iso

\* C11 (as claimed): the transaction fingerprint (column hash) depends only
\* on user_id, amount, currency, merchant_clean and occurred_at, so the
\* table never holds two rows of one user whose dated messages differ in
\* text but agree in those fields: the second INSERT is refused.
C11_OneRowPerTransaction ==
    \A r1, r2 \in expenses :
       (Dated(r1) /\ Dated(r2) /\ SameTransaction(r1, r2))
       => (r1.hash = r2.hash /\ r1 = r2)

\* the Text Normalizer of the specification: runs of whitespace collapsed
\* to one space, leading and trailing whitespace removed
RECURSIVE Collapse(_)
Collapse(s) ==
    IF Len(s) < 2 THEN s
    ELSE IF IsSpace(s[1]) /\ IsSpace(s[2]) THEN Collapse(Tail(s))
    ELSE <<s[1]>> \o Collapse(Tail(s))

Normalize(s) == Strip(Collapse(s))

\* C12 (as claimed): the content fingerprint is a function of the
\* normalized text, so two rows whose texts differ only in whitespace
\* formatting have one sms_hash and the table never holds both.
C12_WhitespaceInsensitive ==
    \A r1, r2 \in expenses :
       Normalize(r1.sms) = Normalize(r2.sms)
       => (r1.sms_hash = r2.sms_hash /\ r1 = r2)

\* the answer the gate gives for the rows found
AnsweredAsDuplicate(answer, found) ==
    /\ answer.op = "ingest"
    /\ answer.resp.status = 200
    /\ ~answer.resp.body.inserted
    /\ \E r \in found : answer.resp.body.existing = {r.id}

\* C13: when the existence check of an ingest call runs while a row with
\* the same sms_hash exists, of the requesting user or of any other, the
\* call is answered inserted=false with the id of that row and the expenses
\* table is unchanged; the same holds of every ingest call that ran alone
\* and found such a row when it was answered.
C13_DuplicateIsNoOp ==
    [][/\ \A p \in Procs :
             ( /\ pc[p] = "ingest_check" /\ pc'[p] # "ingest_check"
               /\ \E r \in expenses : r.sms_hash = local[p].sms_hash )
             => /\ expenses' = expenses
                /\ expenses_seq' = expenses_seq
                /\ done' = done + 1
                /\ lastDone'.payload = local[p].payload
                /\ AnsweredAsDuplicate(lastDone',
                      {r \in expenses : r.sms_hash = local[p].sms_hash})
       /\ ( /\ done' = done + 1
            /\ lastDone'.op = "ingest" /\ RanAlone(lastDone')
            /\ lastDone'.resp.status = 200
            /\ RowsOfText(expenses, lastDone'.payload.sms) # {} )
          => /\ expenses' = expenses
             /\ AnsweredAsDuplicate(lastDone',
                   RowsOfText(expenses, lastDone'.payload.sms))
      ]_vars

\* C13 witness: an ingest call was answered as the duplicate of a row that
\* belongs to another user.
C13_Witness ==
    /\ lastDone.op = "ingest"
    /\ lastDone.resp.status = 200 /\ ~lastDone.resp.body.inserted
    /\ \E r \in expenses :
          /\ lastDone.resp.body.existing = {r.id}
          /\ r.sms_hash = SmsHash(lastDone.payload.sms)
          /\ r.user_id # Strip(lastDone.payload.userid)

\* ------------------------------------------------------------------------
\*  Rule matching
\* ------------------------------------------------------------------------

\* the enabled rules of a user, as the table holds them
EnabledRules(user_id) == {r \in rules : r.user_id = user_id /\ r.enabled = 1}

\* the haystack the specification gives a rule: the merchant text or the
\* full message text
Haystack(r, merchant, message) ==
    IF Lower(r.match_field) = <<"message">> THEN Lower(message)
    ELSE Lower(merchant)

\* a contains rule matches: case-insensitive substring of its haystack
ContainsMatch(r, merchant, message) ==
    IsInfix(Lower(r.pattern), Haystack(r, merchant, message))

\* C14 (as claimed): when the only enabled rule of the user is a contains
\* rule that sets a category, the row ingest persists carries that category
\* exactly when the pattern is a case-insensitive substring of the haystack
\* its match_field selects (the message text for "message", the merchant
\* text for "merchant"), and the extractor's category otherwise.
C14_MatchFieldSelectsHaystack ==
    [][\A row \in NewRows :
          \A r \in rules :
             ( /\ EnabledRules(row.user_id) = {r}
               /\ Lower(r.match_type) = <<"contains">>
               /\ Truthy(r.set_category) )
             => row.category =
                  IF ContainsMatch(r, local[1].extracted.merchant_clean,
                                   local[1].sms)
                  THEN r.set_category
                  ELSE local[1].extracted.category
      ]_vars

\* the record the rule pass leaves equals, in the two fields rules set
SameRuled(record, other) ==
    /\ record.category = other.category
    /\ record.merchant_clean = other.merchant_clean

\* C15: the rules an ingest of user u applies are the rules stored for u
\* and enabled when it reads them.  (a) The row persisted is the one the
\* table gives with every disabled rule and every rule of another user
\* taken out; with no enabled rule of u it is the extractor's record.
\* (b) A rule created by the request answered just before the ingest
\* arrived, when it is the only enabled rule of u, a contains rule on the
\* merchant that matches, has set the category of the row.
C15_RulesReadFresh ==
    [][\A row \in NewRows :
          LET mine  == EnabledRules(row.user_id)
              e     == local[1].extracted
              alone == apply_rules(mine, row.user_id, e.merchant_clean, e)
          IN  /\ ~alone.raised
              /\ SameRuled(row, alone.current)
              /\ mine = {} => SameRuled(row, e)
              /\ \A r \in mine :
                    ( /\ mine = {r}
                      /\ r.id = rules_seq
                      /\ lastDone.op = "create_rule"
                      /\ lastDone.resp.body.id = {r.id}
                      /\ local[1].began = lastDone.n
                      /\ Lower(r.match_field) = <<"merchant">>
                      /\ Lower(r.match_type) = <<"contains">>
                      /\ Truthy(r.set_category)
                      /\ ContainsMatch(r, e.merchant_clean, local[1].sms) )
                    => row.category = r.set_category
      ]_vars

\* C15 witness: with a matching rule of another user and a rule of the
\* user in the table, created by the two requests before it, an ingest
\* persisted a row with the category of the user's own rule.
C15_Witness ==
    /\ \E a, b \in rules :
          /\ a.user_id = Ana /\ a.enabled = 1 /\ a.set_category = <<"anas">>
          /\ b.user_id = Pedro /\ b.enabled = 1 /\ b.id = rules_seq
          /\ b.set_category = <<"beverages">>
    /\ lastDone.op = "ingest" /\ lastDone.n = 3
    /\ \E row \in expenses :
          /\ lastDone.resp = RespInserted(row.id)
          /\ row.user_id = Pedro
          /\ row.category = <<"beverages">>

\* a rule matches a text, by its match_type, case-insensitively
TextMatch(r, text) ==
    CASE Lower(r.match_type) = <<"contains">> ->
            IsInfix(Lower(r.pattern), Lower(text))
      [] Lower(r.match_type) = <<"equals">> -> Lower(r.pattern) = Lower(text)
      [] Lower(r.match_type) = <<"regex">> ->
            ReCompile(r.pattern) = "ok" /\ ReSearch(r.pattern, text)
      [] OTHER -> FALSE

\* the enabled rules of the user that match the merchant and set a category
CategoryRules(user_id, merchant) ==
    {r \in EnabledRules(user_id) :
        /\ Lower(r.match_field) = <<"merchant">>
        /\ TextMatch(r, merchant)
        /\ Truthy(r.set_category)}

\* C16: when enabled rules of the user with a non-empty set_category match
\* the merchant of the ingested message, the category of the row persisted
\* is the set_category of such a rule (of the rule, when there is one),
\* whatever the heuristic gave; when no enabled rule of the user matches,
\* neither the merchant nor the message, the row carries the category and
\* the merchant_clean of the extractor and the heuristic.
C16_RuleOverridesHeuristic ==
    [][\A row \in NewRows :
          LET e       == local[1].extracted
              setters == CategoryRules(row.user_id, e.merchant_clean)
          IN  /\ setters # {}
                 => row.category \in {r.set_category : r \in setters}
              /\ ( \A r \in EnabledRules(row.user_id) :
                      ~TextMatch(r, Haystack(r, e.merchant_clean, local[1].sms)) )
                 => SameRuled(row, e)
      ]_vars

\* C16 witness: the one rule of the table, on STARBUCKS, has replaced the
\* heuristic's coffee in the row of the request after it.
C16_Witness ==
    /\ Cardinality(rules) = 1
    /\ lastDone.op = "ingest" /\ lastDone.n = 2
    /\ \E row \in expenses :
          /\ lastDone.resp = RespInserted(row.id)
          /\ CategoryHeuristic(row.merchant_clean) = <<"coffee">>
          /\ row.category = <<"beverages">>

\* C19 (as claimed): every row ingest persists has its direction column set
\* to "income" or "expense", the value the classifier computed for the
\* message.
C19_DirectionStored ==
    [][\A row \in NewRows :
          /\ row.direction \in {<<"income">>, <<"expense">>}
          /\ row.direction = local[1].parsed.direction
      ]_vars

\* ------------------------------------------------------------------------
\*  /delete and /undo_delete
\* ------------------------------------------------------------------------

\* this step answers a request of the given operation with 200
Answers(op) ==
    done' = done + 1 /\ lastDone'.op = op /\ lastDone'.resp.status = 200

\* this step answers an /undo_delete that arrived right after the /delete
\* answered last, of the same user, no more than the window after it
UndoRightAfterDelete ==
    /\ done' = done + 1
    /\ lastDone'.op = "undo_delete" /\ RanAlone(lastDone')
    /\ KeyOk(lastDone'.payload.api_key)
    /\ lastDone.op = "delete" /\ lastDone.resp.status = 200
    /\ lastDone'.payload.userid = lastDone.payload.userid
    /\ now - lastDone.resp.body.deleted_at[1] <= UndoWindow

\* C17: /delete followed by /undo_delete is a round trip.  A /delete that
\* succeeds takes exactly the row r named out of expenses and adds one
\* trash entry, the newest, that holds r; an /undo_delete of the same user
\* that is served right after it, within the 10 seconds, succeeds, puts
\* back exactly the row that entry holds, with its id, and removes the
\* entry: the table is the one before the delete.
C17_DeleteUndoRoundTrip ==
    [][/\ Answers("delete")
          => \E r \in expenses :
                /\ r.id \in lastDone'.payload.id
                /\ r.user_id = lastDone'.payload.userid
                /\ expenses' = expenses \ {r}
                /\ \E d \in deleted_expenses' :
                      /\ d \notin deleted_expenses
                      /\ deleted_expenses' = deleted_expenses \cup {d}
                      /\ d.id = deleted_seq' /\ d.id > deleted_seq
                      /\ d.user_id = r.user_id /\ d.original_id = r.id
                      /\ JsonLoads(d.row_json) = r
       /\ UndoRightAfterDelete
          => /\ lastDone'.resp.status = 200
             /\ lastDone'.resp.body.restored_id = lastDone.resp.body.deleted_id
             /\ \E d \in deleted_expenses :
                   /\ d.id = deleted_seq
                   /\ {d.original_id} = lastDone.resp.body.deleted_id
                   /\ JsonLoads(d.row_json) \notin expenses
                   /\ expenses' = expenses \cup {JsonLoads(d.row_json)}
                   /\ deleted_expenses' = deleted_expenses \ {d}
      ]_vars

\* C17 witness: a row was ingested, deleted and restored by the undo that
\* followed; it is in the table under its id and the trash is empty.
C17_Witness ==
    /\ lastDone.op = "undo_delete" /\ lastDone.resp.status = 200
    /\ lastDone.n = 3
    /\ deleted_expenses = {} /\ deleted_seq = 1
    /\ \E r \in expenses :
          /\ lastDone.resp.body.restored_id = {r.id}
          /\ r.user_id = lastDone.payload.userid
          /\ expenses = {r}

\* C18 (as claimed): every step that removes a row from expenses writes, in
\* the same transaction, a deleted_expenses entry that holds the row, so a
\* removed row can be restored.
C18_RemovalsGoToTrash ==
    [][\A r \in expenses \ expenses' :
          \E d \in deleted_expenses' \ deleted_expenses :
             /\ d.user_id = r.user_id
             /\ d.original_id = r.id
             /\ JsonLoads(d.row_json) = r
      ]_vars

\* C20: undo is last-in-first-out per user.  The entry a /delete adds is
\* newer (larger id, no earlier deleted_at) than every entry in the trash;
\* a successful /undo_delete of user u takes the newest entry of u, adds
\* the row it holds to expenses and nothing else, and removes that entry
\* and no other: no entry of another user is restored or removed.
C20_UndoIsLifoPerUser ==
    [][/\ Answers("delete")
          => \E d \in deleted_expenses' \ deleted_expenses :
                \A o \in deleted_expenses :
                   o.id < d.id /\ o.deleted_at[1] <= d.deleted_at[1]
       /\ Answers("undo_delete")
          => \E d \in deleted_expenses :
                /\ d.user_id = lastDone'.payload.userid
                /\ \A o \in deleted_expenses :
                      o.user_id = d.user_id => o.id <= d.id
                /\ deleted_expenses' = deleted_expenses \ {d}
                /\ \E row \in NewRows :
                      /\ expenses' = expenses \cup {row}
                      /\ lastDone'.resp.body.restored_id = {row.id}
                      /\ row.user_id = d.user_id
                      /\ [row EXCEPT !.id = d.original_id] = JsonLoads(d.row_json)
      ]_vars

\* C20 witness: an undo succeeded and left in the trash an older entry of
\* the same user, whose row is still out of the table.
C20_Witness ==
    /\ lastDone.op = "undo_delete" /\ lastDone.resp.status = 200
    /\ \E o \in deleted_expenses :
          /\ o.user_id = lastDone.payload.userid
          /\ o.id < deleted_seq
          /\ {o.original_id} # lastDone.resp.body.restored_id
          /\ \A r \in expenses : r.id # o.original_id

====
